---- MODULE Spec2Model ----
(***************************************************************************)
(* Model of the publishing/storage subsystem of binance-poller:            *)
(*   storage/core.py      InMemoryKeyValueStorage                          *)
(*   publishing/parsing.py parse_symbols_info                              *)
(*   publishing/core.py   KeyValueStorePubSub, FilePubSub,                 *)
(*                        InMemoryWithLogPublisher                         *)
(*   poller/core.py       the shutdown path of start_polling               *)
(*                                                                         *)
(* Python dicts are functions whose DOMAIN is the set of keys present.     *)
(* Python lists are sequences.  None is the constant None.  Exceptions are *)
(* the "raised" field of a handler's result: "none" for a normal return,   *)
(* otherwise the name of the exception class.                              *)
(***************************************************************************)
EXTENDS Integers, Sequences, FiniteSets, TLC

(* ------------------------------ bounds --------------------------------- *)
MaxFlushLimit == 2      \* flush_limit is drawn from 1..MaxFlushLimit
MaxPublishes  == 3      \* publish calls made on the Durable Log Sink in one run
MaxFanOutPublishes == 2 \* publish calls made on the Fan-Out Publisher in one run
MaxStoreCalls == 3      \* write, delete and clear_table calls made on a Table Store

(* ------------------------------ values --------------------------------- *)
None == "None"

Topics == {"exchange_info", "system_status", "account_info", "ticker"}

\* dict.get(key): None when the key is missing
Get(d, key) == IF key \in DOMAIN d THEN d[key] ELSE None

\* dict.get(key, default)
GetOr(d, key, default) == IF key \in DOMAIN d THEN d[key] ELSE default

\* d[key] = value on a dict
DictSet(d, key, value) ==
    [k \in DOMAIN d \cup {key} |-> IF k = key THEN value ELSE d[k]]

EmptyDict == [k \in {} |-> None]

(* ----------------------- raw messages of the producer ------------------ *)
PriceFilter ==
    [filterType |-> "PRICE_FILTER", minPrice |-> "10000.00000000",
     maxPrice |-> "100000.00000000", tickSize |-> "0.01000000"]

LotSize ==
    [filterType |-> "LOT_SIZE", minQty |-> "0.00100000",
     maxQty |-> "100.00000000", stepSize |-> "0.00100000"]

\* a PRICE_FILTER that lacks tickSize
PriceFilterPartial ==
    [filterType |-> "PRICE_FILTER", minPrice |-> "0.01", maxPrice |-> "9.99"]

\* a filter of a type the parser ignores, and one with no filterType at all
OtherFilter   == [filterType |-> "NOTIONAL", minNotional |-> "5.0"]
UntypedFilter == [minPrice |-> "1.0"]

RateLimit == [rateLimitType |-> "REQUEST_WEIGHT", interval |-> "MINUTE",
              limit |-> "6000"]

BtcUsdt ==
    [symbol |-> "BTCUSDT", status |-> "TRADING", baseAsset |-> "BTC",
     quoteAsset |-> "USDT", filters |-> <<PriceFilter, LotSize>>]

\* the same instrument later, halted and with degraded filters
BtcUsdtBreak ==
    [symbol |-> "BTCUSDT", status |-> "BREAK", baseAsset |-> "BTC",
     quoteAsset |-> "USDT", filters |-> <<OtherFilter, PriceFilterPartial>>]

\* an instrument with no filters list and no status
EthBtc == [symbol |-> "ETHBTC", baseAsset |-> "ETH", quoteAsset |-> "BTC"]

\* an instrument record without its identifier
Anonymous == [status |-> "TRADING", filters |-> <<UntypedFilter, LotSize>>]

ExchangeInfoMessages ==
    { [symbols |-> <<BtcUsdt>>, rateLimits |-> <<RateLimit>>],
      [symbols |-> <<BtcUsdtBreak, EthBtc>>, rateLimits |-> <<>>],
      [symbols |-> <<Anonymous>>],
      [rateLimits |-> <<RateLimit>>],
      [timezone |-> "UTC"] }

SystemStatusMessages ==
    { [status |-> "0", msg |-> "normal"],
      [status |-> "1"] }

AccountInfoMessages ==
    { [canTrade |-> "true", balances |-> <<[asset |-> "BTC", free |-> "1.0"]>>] }

TickerMessages == { [s |-> "BTCUSDT", c |-> "50000"] }

\* the topics and messages used when the Durable Log Sink is driven directly
LogTopics == {"exchange_info", "system_status"}

LogMessages(topic) ==
    IF topic = "exchange_info"
    THEN { [symbols |-> <<BtcUsdt>>, rateLimits |-> <<RateLimit>>],
           [timezone |-> "UTC"] }
    ELSE { [status |-> "0", msg |-> "normal"] }

Messages(topic) ==
    CASE topic = "exchange_info" -> ExchangeInfoMessages
      [] topic = "system_status" -> SystemStatusMessages
      [] topic = "account_info"  -> AccountInfoMessages
      [] OTHER                   -> TickerMessages

(* --------------------- storage/core.py: the Table Store ---------------- *)
\* a write that updates the dict already stored under the key
write_merged(store, table, key, value) ==
    LET created == IF table \in DOMAIN store
                   THEN store
                   ELSE DictSet(store, table, EmptyDict)
        old == GetOr(created[table], key, EmptyDict)
    IN  [created EXCEPT ![table] =
            DictSet(@, key, [f \in DOMAIN old \cup DOMAIN value |->
                                IF f \in DOMAIN value THEN value[f]
                                ELSE old[f]])]

\* InMemoryKeyValueStorage.write
write(store, table, key, value) ==
    LET created == IF table \notin DOMAIN store
                   THEN DictSet(store, table, EmptyDict)
                   ELSE store
    IN  [created EXCEPT ![table] = DictSet(@, key, value)]

\* InMemoryKeyValueStorage.read
read(store, table, key) == Get(GetOr(store, table, EmptyDict), key)

\* InMemoryKeyValueStorage.read_all
read_all(store, table) == Get(store, table)

\* a delete that leaves the entry in place
delete_ignored(store, table, key) == store

\* InMemoryKeyValueStorage.delete
delete(store, table, key) ==
    IF table \in DOMAIN store /\ key \in DOMAIN store[table]
    THEN [store EXCEPT ![table] =
             [k \in DOMAIN store[table] \ {key} |-> store[table][k]]]
    ELSE store

\* a clear_table that assigns an empty table whether or not one exists
clear_table_created(store, table) == DictSet(store, table, EmptyDict)

\* a clear_table that drops the table itself
clear_table_dropped(store, table) ==
    [t \in DOMAIN store \ {table} |-> store[t]]

\* InMemoryKeyValueStorage.clear_table
clear_table(store, table) ==
    IF table \in DOMAIN store
    THEN [store EXCEPT ![table] = EmptyDict]
    ELSE store

\* the tables, keys and values of the calls made on a Table Store directly
StoreTables == {"symbols", "ticker"}
StoreKeys   == {"BTCUSDT", "ETHBTC"}
StoreValues == { [bid |-> "1"], [ask |-> "2"] }

(* ------------------- publishing/parsing.py: the parser ----------------- *)
\* the loop over symbol_info["filters"]: fields is the six local variables
RECURSIVE scan_filters(_, _, _)
scan_filters(filters, i, fields) ==
    IF i > Len(filters) THEN fields
    ELSE LET filter_info == filters[i]
             type == Get(filter_info, "filterType")
         IN  scan_filters(filters, i + 1,
               IF type = "PRICE_FILTER"
               THEN [fields EXCEPT !.min_price = Get(filter_info, "minPrice"),
                                   !.max_price = Get(filter_info, "maxPrice"),
                                   !.tick_size = Get(filter_info, "tickSize")]
               ELSE IF type = "LOT_SIZE"
               THEN [fields EXCEPT !.min_qty = Get(filter_info, "minQty"),
                                   !.max_qty = Get(filter_info, "maxQty"),
                                   !.step_size = Get(filter_info, "stepSize")]
               ELSE fields)

\* a record whose minPrice and maxPrice are taken from each other's field
symbol_record_swapped(symbol_info) ==
    LET f == scan_filters(GetOr(symbol_info, "filters", <<>>), 1,
                 [tick_size |-> None, min_price |-> None, max_price |-> None,
                  min_qty |-> None, max_qty |-> None, step_size |-> None])
    IN  [symbol     |-> Get(symbol_info, "symbol"),
         baseAsset  |-> Get(symbol_info, "baseAsset"),
         quoteAsset |-> Get(symbol_info, "quoteAsset"),
         tickSize   |-> f.tick_size,
         minPrice   |-> f.max_price,
         maxPrice   |-> f.min_price,
         lotSize    |-> [minQty |-> f.min_qty, maxQty |-> f.max_qty,
                         stepSize |-> f.step_size],
         status     |-> Get(symbol_info, "status")]

\* the body of the loop over response["symbols"] for one symbol_info
symbol_record(symbol_info) ==
    LET f == scan_filters(GetOr(symbol_info, "filters", <<>>), 1,
                 [tick_size |-> None, min_price |-> None, max_price |-> None,
                  min_qty |-> None, max_qty |-> None, step_size |-> None])
    IN  [symbol     |-> Get(symbol_info, "symbol"),
         baseAsset  |-> Get(symbol_info, "baseAsset"),
         quoteAsset |-> Get(symbol_info, "quoteAsset"),
         tickSize   |-> f.tick_size,
         minPrice   |-> f.min_price,
         maxPrice   |-> f.max_price,
         lotSize    |-> [minQty |-> f.min_qty, maxQty |-> f.max_qty,
                         stepSize |-> f.step_size],
         status     |-> Get(symbol_info, "status")]

RECURSIVE parse_symbols_from(_, _, _)
parse_symbols_from(symbols, i, symbol_metadata) ==
    IF i > Len(symbols) THEN symbol_metadata
    ELSE parse_symbols_from(symbols, i + 1,
             DictSet(symbol_metadata, Get(symbols[i], "symbol"),
                     symbol_record(symbols[i])))

parse_symbols_info(response) ==
    parse_symbols_from(GetOr(response, "symbols", <<>>), 1, EmptyDict)

(* ------------- publishing/core.py: the Table-Store Sink ---------------- *)
\* one write(table, key, value) per item of a dict; the writes hit distinct
\* keys, so the order of the iteration does not show in the result
\* the writes put off: nothing is in the store when publish returns
write_items_deferred(store, table, d, keys) == store

RECURSIVE write_items(_, _, _, _)
write_items(store, table, d, keys) ==
    IF keys = {} THEN store
    ELSE LET key == CHOOSE k \in keys : TRUE
         IN  write_items(write(store, table, key, d[key]), table, d,
                         keys \ {key})

\* a publish that stores the items of a message of any other topic as well
KeyValueStorePubSub_publish_any_topic(store, topic, message) ==
    IF topic = "exchange_info"
    THEN LET symbols_info == parse_symbols_info(message)
             s1 == write_items(store, "symbols", symbols_info,
                               DOMAIN symbols_info)
         IN  IF "rateLimits" \in DOMAIN message
             THEN [storage |-> write(s1, topic, "rateLimits",
                                     message["rateLimits"]),
                   raised  |-> "none"]
             ELSE [storage |-> s1, raised |-> "KeyError"]
    ELSE [storage |-> write_items(store, topic, message, DOMAIN message),
          raised  |-> "none"]

\* a publish that empties the table first, so that the table mirrors the
\* newest message alone
KeyValueStorePubSub_publish_replacing(store, topic, message) ==
    IF topic = "exchange_info"
    THEN LET symbols_info == parse_symbols_info(message)
             s1 == write_items(clear_table(store, "symbols"), "symbols",
                               symbols_info, DOMAIN symbols_info)
         IN  IF "rateLimits" \in DOMAIN message
             THEN [storage |-> write(s1, topic, "rateLimits",
                                     message["rateLimits"]),
                   raised  |-> "none"]
             ELSE [storage |-> s1, raised |-> "KeyError"]
    ELSE IF topic \in {"system_status", "account_info"}
    THEN [storage |-> write_items(clear_table(store, topic), topic, message,
                                  DOMAIN message),
          raised  |-> "none"]
    ELSE [storage |-> store, raised |-> "none"]

\* KeyValueStorePubSub.publish: the store it leaves and the exception, if any
KeyValueStorePubSub_publish(store, topic, message) ==
    IF topic = "exchange_info"
    THEN LET symbols_info == parse_symbols_info(message)
             s1 == write_items(store, "symbols", symbols_info,
                               DOMAIN symbols_info)
         IN  IF "rateLimits" \in DOMAIN message
             THEN [storage |-> write(s1, topic, "rateLimits",
                                     message["rateLimits"]),
                   raised  |-> "none"]
             ELSE [storage |-> s1, raised |-> "KeyError"]
    ELSE IF topic \in {"system_status", "account_info"}
    THEN [storage |-> write_items(store, topic, message, DOMAIN message),
          raised  |-> "none"]
    ELSE [storage |-> store, raised |-> "none"]

(* ------------- publishing/core.py: the Durable Log Sink ---------------- *)
\* Every key that occurs in a message, in the order json.dumps emits them,
\* and the keys whose value is a list of objects.
JsonKeys ==
    << "symbols", "rateLimits", "timezone", "symbol", "status", "baseAsset",
       "quoteAsset", "filters", "filterType", "minPrice", "maxPrice",
       "tickSize", "minQty", "maxQty", "stepSize", "minNotional",
       "rateLimitType", "interval", "limit", "msg", "canTrade", "balances",
       "asset", "free", "s", "c" >>

ListKeys == {"symbols", "filters", "rateLimits", "balances"}

\* json.dumps(message): the text of an object is the sequence of its
\* members, each a pair <<key, text of the value>>
RECURSIVE json_dumps(_)
json_dumps(message) ==
    LET present(k) == k \in DOMAIN message
        keys == SelectSeq(JsonKeys, present)
    IN  [i \in 1..Len(keys) |->
            <<keys[i],
              IF keys[i] \in ListKeys
              THEN [j \in 1..Len(message[keys[i]]) |->
                       json_dumps(message[keys[i]][j])]
              ELSE message[keys[i]]>>]

\* json.loads(text), what a reader of the log file does with a payload
RECURSIVE json_loads(_)
json_loads(text) ==
    [k \in {text[i][1] : i \in 1..Len(text)} |->
        LET i == CHOOSE n \in 1..Len(text) : text[n][1] = k
        IN  IF k \in ListKeys
            THEN [j \in 1..Len(text[i][2]) |-> json_loads(text[i][2][j])]
            ELSE text[i][2]]

\* a line that holds only the first member of the serialized message
log_line_truncated(formatted_time, message) ==
    [time |-> formatted_time,
     payload |-> SubSeq(json_dumps(message), 1, 1)]

\* the line f"{formatted_time} - {message_s}\n"
log_line(formatted_time, message) ==
    [time |-> formatted_time, payload |-> json_dumps(message)]

\* the topics that have an entry in self.file_handles
OpenTopics(fs) == {fs.file_handles[i] : i \in 1..Len(fs.file_handles)}

\* FilePubSub._get_file_handle: the file is opened in append mode, so what
\* it already holds stays
_get_file_handle(fs, topic) ==
    IF topic \notin OpenTopics(fs)
    THEN [fs EXCEPT !.file_handles = Append(@, topic),
                    !.write_counts = DictSet(@, topic, 0)]
    ELSE fs

\* TextIO.flush() on the handle of a topic: everything written so far
\* becomes visible in the file
handle_flush(fs, topic) ==
    [fs EXCEPT !.flushed[topic] = Len(fs.written[topic])]

\* a flush that flushes the handle of every topic and resets every counter
flush_every_topic(fs, topic, ok) ==
    IF topic \in OpenTopics(fs) /\ ~ok
    THEN [fs |-> fs, raised |-> "OSError"]
    ELSE [fs |-> [fs EXCEPT !.flushed = [u \in DOMAIN @ |->
                                            Len(fs.written[u])],
                            !.write_counts = [u \in DOMAIN @ |-> 0]],
          raised |-> "none"]

\* FilePubSub.flush.  ok is the outcome of the file flush: when it fails the
\* OSError leaves the method before the counter is reset.
flush(fs, topic, ok) ==
    IF topic \in OpenTopics(fs)
    THEN IF ok
         THEN [fs |-> [handle_flush(fs, topic)
                          EXCEPT !.write_counts[topic] = 0],
               raised |-> "none"]
         ELSE [fs |-> fs, raised |-> "OSError"]
    ELSE [fs |-> fs, raised |-> "none"]

\* a write that puts the line in front of what the handle already holds
handle_write_prepend(fs, topic, line, spill) ==
    [fs EXCEPT !.written[topic] = <<line>> \o @,
               !.flushed[topic] = IF spill THEN Len(fs.written[topic]) ELSE @]

\* TextIO.write(line) on the handle of a topic.  The line goes to the
\* handle's buffer; when the buffer overflows (spill) the runtime first
\* writes what was buffered before this line through to the file.
handle_write(fs, topic, line, spill) ==
    [fs EXCEPT !.written[topic] = Append(@, line),
               !.flushed[topic] = IF spill THEN Len(fs.written[topic]) ELSE @]

\* a threshold test that is off by one
limit_exceeded(count, limit) == count > limit

\* the condition of the threshold test in publish
limit_reached(count, limit) == count >= limit

\* FilePubSub.publish.  io is what the file system does during the call:
\* io.write (the append succeeds), io.spill, io.flush (the flush succeeds).
FilePubSub_publish(fs, limit, topic, message, formatted_time, io) ==
    LET opened == _get_file_handle(fs, topic)
    IN  IF ~io.write
        THEN [fs |-> opened, raised |-> "OSError"]
        ELSE LET appended ==
                     handle_write(opened, topic,
                                  log_line(formatted_time, message), io.spill)
                 counted ==
                     [appended EXCEPT !.write_counts[topic] = @ + 1]
             IN  IF limit_reached(counted.write_counts[topic], limit)
                 THEN flush(counted, topic, io.flush)
                 ELSE [fs |-> counted, raised |-> "none"]

\* FilePubSub.flush_all: the handles are visited in insertion order; the
\* first n flushes succeed and, when n < len(file_handles), the next one
\* raises OSError out of the loop.
RECURSIVE flush_all_from(_, _, _)
flush_all_from(fs, i, n) ==
    IF i > Len(fs.file_handles) THEN [fs |-> fs, raised |-> "none"]
    ELSE IF i > n THEN [fs |-> fs, raised |-> "OSError"]
    ELSE flush_all_from(
             [handle_flush(fs, fs.file_handles[i])
                 EXCEPT !.write_counts[fs.file_handles[i]] = 0],
             i + 1, n)

flush_all(fs, n) == flush_all_from(fs, 1, n)

\* a close that drops the handle without flushing it
handle_close_no_flush(fs, topic, ok) ==
    [fs EXCEPT !.closed_handles = @ \cup {topic}]

\* TextIO.close() on the handle of a topic: flushes, then closes.  When the
\* flush fails the handle is closed all the same, and what it had buffered
\* never becomes visible.
handle_close(fs, topic, ok) ==
    [(IF ok THEN handle_flush(fs, topic) ELSE fs)
        EXCEPT !.closed_handles = @ \cup {topic}]

\* the loop of FilePubSub.close over file_handles.values(): the first n
\* closes succeed and, when n < len(file_handles), the next one raises
RECURSIVE close_handles_from(_, _, _)
close_handles_from(fs, i, n) ==
    IF i > Len(fs.file_handles) THEN [fs |-> fs, raised |-> "none"]
    ELSE IF i > n
    THEN [fs |-> handle_close(fs, fs.file_handles[i], FALSE),
          raised |-> "OSError"]
    ELSE close_handles_from(handle_close(fs, fs.file_handles[i], TRUE),
                            i + 1, n)

\* FilePubSub.close after the await: close every handle, then clear the two
\* dicts (not reached when a close raised)
close_files(fs, n) ==
    LET r == close_handles_from(fs, 1, n)
    IN  IF r.raised = "none"
        THEN [fs |-> [r.fs EXCEPT !.file_handles = <<>>,
                                  !.closed_handles = {},
                                  !.write_counts = EmptyDict],
              raised |-> "none"]
        ELSE r

\* Task.cancel() on flush_task: a task that is already done is left alone
task_cancel(task) == IF task = "sleeping" THEN "cancelling" ELSE task

\* a close that does not wait for the task
task_done_no_wait(task) == TRUE

\* what `await asyncio.gather(self.flush_task, return_exceptions=True)`
\* waits for: the task is done, cancelled or failed
task_done(task) == task \in {"cancelled", "failed"}

(* ------------- publishing/core.py: the Fan-Out Publisher --------------- *)
\* a fan-out in the other order: in_memory first, then file_backed
InMemoryWithLogPublisher_publish_swapped(fs, store, limit, topic, message, formatted_time, io) ==
    LET stored == KeyValueStorePubSub_publish(store, topic, message)
    IN  IF stored.raised # "none"
        THEN [fs |-> fs, storage |-> stored.storage, raised |-> stored.raised]
        ELSE LET logged == FilePubSub_publish(fs, limit, topic, message,
                                              formatted_time, io)
             IN  [fs |-> logged.fs, storage |-> stored.storage,
                  raised |-> logged.raised]

\* InMemoryWithLogPublisher.publish: file_backed first, then in_memory; an
\* exception of the first call skips the second
InMemoryWithLogPublisher_publish(fs, store, limit, topic, message, formatted_time, io) ==
    LET logged == FilePubSub_publish(fs, limit, topic, message,
                                     formatted_time, io)
    IN  IF logged.raised # "none"
        THEN [fs |-> logged.fs, storage |-> store, raised |-> logged.raised]
        ELSE LET stored == KeyValueStorePubSub_publish(store, topic, message)
             IN  [fs |-> logged.fs, storage |-> stored.storage,
                  raised |-> stored.raised]

(* ------------------------------ state ---------------------------------- *)
VARIABLES
    flush_limit,     \* FilePubSub.flush_limit, fixed at construction
    file_handles,    \* keys of FilePubSub.file_handles, in insertion order
    closed_handles,  \* topics whose handle in file_handles has been closed
    write_counts,    \* FilePubSub.write_counts
    written,         \* per topic, the lines its handle has accepted
    flushed,         \* per topic, how many of them are visible in the file
    flush_task,      \* the asyncio task running flush_periodically
    close_pc,        \* where a FilePubSub.close() call stands
    publisher_close, \* where InMemoryWithLogPublisher.close() stands
    close_coro,      \* the coroutine object file_backed.close() returned
    storage,         \* InMemoryKeyValueStorage.storage
    publishes,       \* publish calls made so far
    last,            \* the publish call that completed last, and how it ended
    store_calls,     \* the calls made on the Table Store directly, in order
    unreported       \* an I/O error happened and no call has raised since

vars == <<flush_limit, file_handles, closed_handles, write_counts, written,
          flushed, flush_task, close_pc, publisher_close, close_coro,
          storage, publishes, last, store_calls, unreported>>

\* the FilePubSub fields as one value, and back
Sink == [file_handles |-> file_handles, closed_handles |-> closed_handles,
         write_counts |-> write_counts, written |-> written,
         flushed |-> flushed]

SetSink(fs) ==
    /\ file_handles' = fs.file_handles
    /\ closed_handles' = fs.closed_handles
    /\ write_counts' = fs.write_counts
    /\ written' = fs.written
    /\ flushed' = fs.flushed

NoCall == [op |-> "none", topic |-> None, message |-> EmptyDict,
           raised |-> "none"]

\* FilePubSub.__init__ (with the flush task created), an empty
\* InMemoryKeyValueStorage, and log files that start empty
Init ==
    /\ flush_limit \in 1..MaxFlushLimit
    /\ file_handles = <<>>
    /\ closed_handles = {}
    /\ write_counts = EmptyDict
    /\ written = [t \in Topics |-> <<>>]
    /\ flushed = [t \in Topics |-> 0]
    /\ flush_task = "sleeping"
    /\ close_pc = "idle"
    /\ publisher_close = "idle"
    /\ close_coro = "none"
    /\ storage = EmptyDict
    /\ publishes = 0
    /\ last = NoCall
    /\ store_calls = <<>>
    /\ unreported = FALSE

\* datetime.now() at a publish: the clock moves on from one call to the next
Now == publishes

\* what the file system may do during one publish
IoOutcomes == [write : BOOLEAN, spill : BOOLEAN, flush : BOOLEAN]

\* the producer may call into the sink: before shutdown, or while a
\* FilePubSub.close() is suspended in its await
ProducerRuns == close_pc \in {"idle", "awaiting"} /\ publisher_close = "idle"

\* the pending counter of a topic before a publish (0 for a new handle)
CountOf(topic) == GetOr(write_counts, topic, 0)

\* bookkeeping of a completed publish call
Published(op, topic, message, raised) ==
    /\ publishes' = publishes + 1
    /\ last' = [op |-> op, topic |-> topic, message |-> message,
                raised |-> raised]
    /\ unreported' = IF raised = "OSError" THEN FALSE ELSE unreported

(* ------------------------------ actions -------------------------------- *)
\* a direct call of FilePubSub.publish(topic, message)
FilePublish(topic, message) ==
    /\ ProducerRuns
    /\ publishes < MaxPublishes
    /\ \E io \in IoOutcomes :
          LET r == FilePubSub_publish(Sink, flush_limit, topic, message,
                                      Now, io)
          IN  /\ SetSink(r.fs)
              /\ Published("publish", topic, message, r.raised)
    /\ UNCHANGED <<flush_limit, flush_task, close_pc, publisher_close,
                   close_coro, store_calls, storage>>

\* the poller's call InMemoryWithLogPublisher.publish(topic, message)
FanOutPublish(topic, message) ==
    /\ ProducerRuns
    /\ publishes < MaxFanOutPublishes
    /\ \E io \in IoOutcomes :
          LET r == InMemoryWithLogPublisher_publish(
                       Sink, storage, flush_limit, topic, message, Now, io)
          IN  /\ SetSink(r.fs)
              /\ storage' = r.storage
              /\ Published("fan_out_publish", topic, message, r.raised)
    /\ UNCHANGED <<flush_limit, flush_task, close_pc, publisher_close,
                   close_coro, store_calls>>

\* a direct call of FilePubSub.flush(topic)
Flush(topic) ==
    /\ ProducerRuns
    /\ \E ok \in BOOLEAN :
          LET r == flush(Sink, topic, ok)
          IN  /\ SetSink(r.fs)
              /\ unreported' = IF r.raised = "OSError" THEN FALSE
                               ELSE unreported
    /\ UNCHANGED <<flush_limit, flush_task, close_pc, publisher_close,
                   close_coro, store_calls, storage, publishes, last>>

\* flush_periodically: the sleep is over and flush_all runs.  An OSError
\* leaves the loop, and the task ends holding the exception.
Tick ==
    /\ flush_task = "sleeping"
    /\ \E n \in 0..Len(file_handles) :
          LET r == flush_all(Sink, n)
          IN  /\ SetSink(r.fs)
              /\ flush_task' = IF r.raised = "none" THEN "sleeping"
                               ELSE "failed"
              /\ unreported' = IF r.raised = "none" THEN unreported ELSE TRUE
    /\ UNCHANGED <<flush_limit, close_pc, publisher_close, close_coro,
                   store_calls, storage, publishes, last>>

\* FilePubSub.close up to its await: flush_task.cancel()
CloseBegin ==
    /\ close_pc = "idle"
    /\ publisher_close = "idle"
    /\ flush_task' = task_cancel(flush_task)
    /\ close_pc' = "awaiting"
    /\ UNCHANGED <<flush_limit, file_handles, closed_handles, write_counts,
                   written, flushed, publisher_close, close_coro,
                   store_calls, storage, publishes, last, unreported>>

\* the event loop throws CancelledError into flush_periodically at its await
TaskCancelled ==
    /\ flush_task = "cancelling"
    /\ flush_task' = "cancelled"
    /\ UNCHANGED <<flush_limit, file_handles, closed_handles, write_counts,
                   written, flushed, close_pc, publisher_close,
                   close_coro, store_calls, storage, publishes, last,
                   unreported>>

\* FilePubSub.close after its await: gather(return_exceptions=True) hands
\* back the task's exception as a value, then the handles are closed
CloseFinish ==
    /\ close_pc = "awaiting"
    /\ task_done(flush_task)
    /\ \E n \in 0..Len(file_handles) :
          LET r == close_files(Sink, n)
          IN  /\ SetSink(r.fs)
              /\ close_pc' = IF r.raised = "none" THEN "returned" ELSE "raised"
              /\ unreported' = IF r.raised = "OSError" THEN FALSE
                               ELSE unreported
    /\ UNCHANGED <<flush_limit, flush_task, publisher_close,
                   close_coro, store_calls, storage, publishes, last>>

\* the poller's `await self.publisher.close()`.  InMemoryWithLogPublisher
\* .close is a plain function: in_memory.close() does nothing, and
\* file_backed.close() only builds a coroutine object that nobody awaits, so
\* no line of FilePubSub.close runs.  close() returns None, and awaiting
\* None raises TypeError in start_polling.
PublisherClose ==
    /\ publisher_close = "idle"
    /\ close_pc = "idle"
    /\ publisher_close' = "returned"
    /\ close_coro' = "never_awaited"
    /\ UNCHANGED <<flush_limit, file_handles, closed_handles, write_counts,
                   written, flushed, flush_task, close_pc, store_calls, storage,
                   publishes, last, unreported>>

\* the Durable Log Sink driven directly, through its whole life
Next ==
    \/ \E topic \in LogTopics : \E message \in LogMessages(topic) :
          FilePublish(topic, message)
    \/ \E topic \in LogTopics : Flush(topic)
    \/ Tick
    \/ CloseBegin
    \/ TaskCancelled
    \/ CloseFinish

Spec == Init /\ [][Next]_vars

\* the event loop runs every task that is ready: the timer of
\* flush_periodically fires, and a cancellation is delivered
LiveSpec == Spec /\ WF_vars(Tick) /\ WF_vars(TaskCancelled)

\* the poller: publishes through the Fan-Out Publisher, the periodic flush
\* runs in the background, and shutdown goes through
\* InMemoryWithLogPublisher.close
FanOutNext ==
    \/ \E topic \in Topics : \E message \in Messages(topic) :
          FanOutPublish(topic, message)
    \/ Tick
    \/ PublisherClose

FanOutSpec == Init /\ [][FanOutNext]_vars

\* the sink's fields and the bookkeeping of publish calls, which a call on
\* the Table Store does not touch
SinkVars == <<flush_limit, file_handles, closed_handles, write_counts,
              written, flushed, flush_task, close_pc, publisher_close,
              close_coro, publishes, last, unreported>>

\* a call storage.write(table, key, value)
StoreWrite(table, key, value) ==
    /\ Len(store_calls) < MaxStoreCalls
    /\ storage' = write(storage, table, key, value)
    /\ store_calls' = Append(store_calls, [op |-> "write", table |-> table,
                                           key |-> key, value |-> value])
    /\ UNCHANGED SinkVars

\* a call storage.delete(table, key)
StoreDelete(table, key) ==
    /\ Len(store_calls) < MaxStoreCalls
    /\ storage' = delete(storage, table, key)
    /\ store_calls' = Append(store_calls, [op |-> "delete", table |-> table,
                                           key |-> key, value |-> None])
    /\ UNCHANGED SinkVars

\* a call storage.clear_table(table)
StoreClearTable(table) ==
    /\ Len(store_calls) < MaxStoreCalls
    /\ storage' = clear_table(storage, table)
    /\ store_calls' = Append(store_calls, [op |-> "clear_table",
                                           table |-> table, key |-> None,
                                           value |-> None])
    /\ UNCHANGED SinkVars

\* an InMemoryKeyValueStorage driven directly by any sequence of calls
StoreNext ==
    \/ \E table \in StoreTables : \E key \in StoreKeys :
          \E value \in StoreValues : StoreWrite(table, key, value)
    \/ \E table \in StoreTables : \E key \in StoreKeys :
          StoreDelete(table, key)
    \/ \E table \in StoreTables : StoreClearTable(table)

StoreSpec == Init /\ [][StoreNext]_vars

(* ------------------------------ properties ----------------------------- *)
AllFlushed == \A t \in Topics : flushed[t] = Len(written[t])

TaskStopped == flush_task \in {"cancelled", "failed"}

\* a step that is a publish call on topic t
PublishStep(t) == publishes' = publishes + 1 /\ last'.topic = t

\* C1 -- Shutdown drains: when FilePubSub.close() has returned, the periodic
\* flush task is no longer running and every record appended to any topic is
\* visible in that topic's file.
ShutdownDrains == close_pc = "returned" => TaskStopped /\ AllFlushed

\* close() returned after records were appended, with the task cancelled
ShutdownDrainsWitness ==
    /\ close_pc = "returned"
    /\ flush_task = "cancelled"
    /\ \E t \in Topics : Len(written[t]) >= 2

\* C2 -- Fan-Out shutdown closes both sinks: when
\* InMemoryWithLogPublisher.close() has returned and its result has been
\* awaited, the Durable Log Sink's close has run: the flush task is
\* cancelled and every file handle is flushed and closed.
FanOutCloseClosesLog ==
    publisher_close = "returned" =>
        TaskStopped /\ file_handles = <<>> /\ AllFlushed

\* C3 -- Pending-buffer bound: every topic's pending counter is at most
\* flush_limit, also after steps in which a flush failed, and after a
\* publish that returned normally the counter of its topic is below
\* flush_limit.
PendingBound ==
    /\ \A t \in DOMAIN write_counts : write_counts[t] <= flush_limit
    /\ last.op # "none" /\ last.raised = "none" =>
           CountOf(last.topic) < flush_limit

TimerFlush ==
    \A t \in Topics :
        (flushed[t] < Len(written[t])) ~>
            (flushed[t] = Len(written[t]) \/ close_pc # "idle")

\* C6 -- No use-after-close flush: close() has closed a handle only when the
\* periodic task has fully stopped, and from the moment close() has
\* cancelled it the task is never again in a state where it can run a sweep.
NoUseAfterClose ==
    /\ close_pc \in {"returned", "raised"} \/ closed_handles # {} =>
           TaskStopped
    /\ flush_task = "sleeping" => close_pc = "idle"

\* close() raised while closing the handles, after the task was cancelled
NoUseAfterCloseWitness ==
    /\ closed_handles # {}
    /\ close_pc = "raised"
    /\ flush_task = "cancelled"

\* C7 -- I/O failures are never swallowed: there is no run in which an
\* append or a flush failed and every later publish, flush and close call,
\* up to and including close(), returned normally.
IoFailureSurfaces == ~(unreported /\ close_pc = "returned")

\* C8 -- Parse degradation never raises: KeyValueStorePubSub.publish returns
\* normally for every message of a known topic, whatever keys are missing.
ParseNeverRaises == last.raised # "KeyError"

\* C9 -- Fan-out order: the log step comes first.  When it fails the Table
\* Store is unchanged; when it succeeds the record is in the log whatever the
\* table step does, and the Table Store is what the table step made of it.
FanOutOrder ==
    [][\A t \in Topics :
          PublishStep(t) /\ last'.op = "fan_out_publish" =>
              LET kv == KeyValueStorePubSub_publish(storage, t, last'.message)
              IN  /\ last'.raised = "OSError" => storage' = storage
                  /\ last'.raised # "OSError" =>
                         /\ written'[t] =
                                Append(written[t], log_line(Now, last'.message))
                         /\ storage' = kv.storage
                         /\ last'.raised = kv.raised]_vars

\* the table step failed after the log step: the record is in the log, and
\* the instruments written before the failure are in the Table Store
FanOutOrderWitness ==
    /\ last.op = "fan_out_publish"
    /\ last.raised = "KeyError"
    /\ Len(written["exchange_info"]) >= 1
    /\ "symbols" \in DOMAIN storage

\* C10 as stated -- the log of a topic is the sequence of the messages passed
\* to publish for it: every publish call adds its message at the end, no
\* other step changes the log, and the flushed part is a prefix of it.
LogIsEveryPublishCall ==
    [][\A t \in Topics :
          /\ written'[t] = IF PublishStep(t)
                           THEN Append(written[t], log_line(Now, last'.message))
                           ELSE written[t]
          /\ flushed[t] <= flushed'[t]
          /\ flushed'[t] <= Len(written'[t])]_vars

\* C10 -- Per-topic log order and append-only history: the log of a topic is
\* the sequence of the messages passed to those publish calls for it whose
\* append did not fail with an I/O error, in call order.  A publish call
\* that does not raise OSError adds its message at the end; no other step
\* changes the log; the flushed part only grows and is a prefix of the log.
LogIsAppendOnly ==
    [][\A t \in Topics :
          /\ \/ written'[t] = written[t]
             \/ /\ PublishStep(t)
                /\ written'[t] =
                       Append(written[t], log_line(Now, last'.message))
          /\ PublishStep(t) /\ last'.raised # "OSError" =>
                 written'[t] # written[t]
          /\ flushed[t] <= flushed'[t]
          /\ flushed'[t] <= Len(written'[t])]_vars

\* a topic holds two different records, the first visible, the second not
LogIsAppendOnlyWitness ==
    \E t \in Topics :
        /\ Len(written[t]) = 2
        /\ written[t][1].payload # written[t][2].payload
        /\ flushed[t] = 1


\* the last line of a topic's log
LastLine(log) == log[Len(log)]

\* C11 as stated -- every FilePubSub.publish(topic, message) adds exactly
\* one record to the topic's log, and its payload decodes to the message.
EveryPublishAddsOneRecord ==
    [][\A t \in Topics :
          PublishStep(t) =>
              /\ Len(written'[t]) = Len(written[t]) + 1
              /\ SubSeq(written'[t], 1, Len(written[t])) = written[t]
              /\ json_loads(LastLine(written'[t]).payload) = last'.message]_vars

\* C11 -- Log round-trip: a FilePubSub.publish(topic, message) whose append
\* does not fail with an I/O error adds exactly one record at the end of
\* the topic's log, and that record's payload decodes back to exactly the
\* message; a publish whose append fails raises OSError and adds none.  When
\* the publish itself flushes the topic, the whole log with that one new
\* line is visible.
LogRoundTrip ==
    [][\A t \in Topics :
          PublishStep(t) =>
              \/ /\ written'[t] = written[t]
                 /\ last'.raised = "OSError"
              \/ /\ Len(written'[t]) = Len(written[t]) + 1
                 /\ SubSeq(written'[t], 1, Len(written[t])) = written[t]
                 /\ json_loads(LastLine(written'[t]).payload) = last'.message
                 /\ last'.raised = "none" /\ write_counts'[t] = 0 =>
                        flushed'[t] = Len(written[t]) + 1]_vars

\* a nested exchange_info message was published and flushed by its publish,
\* and the line read back from the file decodes to it
LogRoundTripWitness ==
    /\ last.op = "publish" /\ last.raised = "none"
    /\ last.topic = "exchange_info"
    /\ "symbols" \in DOMAIN last.message
    /\ flushed["exchange_info"] = Len(written["exchange_info"])
    /\ flushed["exchange_info"] >= 1
    /\ json_loads(LastLine(written["exchange_info"]).payload) = last.message


\* the store holds an entry for the key in the table
Present(store, table, key) ==
    table \in DOMAIN store /\ key \in DOMAIN store[table]

\* C12 -- Read-your-writes: when a publish on the Table-Store Sink has
\* returned, read(topic, k) is v for every top-level pair of a system_status
\* or account_info message; for exchange_info, read('symbols', id) is the
\* parsed record of every instrument of the message and
\* read('exchange_info', 'rateLimits') is the message's rate-limit list.
ReadYourWrites ==
    last.op = "fan_out_publish" /\ last.raised = "none" =>
        LET m == last.message
            symbols == GetOr(m, "symbols", <<>>)
        IN  /\ last.topic \in {"system_status", "account_info"} =>
                   \A k \in DOMAIN m :
                       /\ Present(storage, last.topic, k)
                       /\ read(storage, last.topic, k) = m[k]
            /\ last.topic = "exchange_info" =>
                   /\ \A i \in 1..Len(symbols) :
                         LET id == Get(symbols[i], "symbol")
                         IN  /\ Present(storage, "symbols", id)
                             /\ read(storage, "symbols", id)
                                    = symbol_record(symbols[i])
                   /\ Present(storage, "exchange_info", "rateLimits")
                   /\ read(storage, "exchange_info", "rateLimits")
                          = m["rateLimits"]

\* an exchange_info message with two instruments was published after a
\* system_status message, and both instruments can be read
ReadYourWritesWitness ==
    /\ last.op = "fan_out_publish" /\ last.raised = "none"
    /\ last.topic = "exchange_info"
    /\ Len(GetOr(last.message, "symbols", <<>>)) = 2
    /\ read(storage, "symbols", "ETHBTC") = symbol_record(EthBtc)
    /\ read(storage, "symbols", "BTCUSDT") = symbol_record(BtcUsdtBreak)
    /\ read(storage, "system_status", "status") # None


\* The reference map, read off the calls made so far: the value of the most
\* recent write(table, key, _) among calls[1..i] that no later delete(table,
\* key) or clear_table(table) has undone, as a set of at most one value.
RECURSIVE MostRecentWrite(_, _, _, _)
MostRecentWrite(calls, i, table, key) ==
    IF i = 0 THEN {}
    ELSE LET c == calls[i]
         IN  IF c.table = table /\ c.op = "clear_table" THEN {}
             ELSE IF c.table = table /\ c.key = key /\ c.op = "delete" THEN {}
             ELSE IF c.table = table /\ c.key = key /\ c.op = "write"
             THEN {c.value}
             ELSE MostRecentWrite(calls, i - 1, table, key)

\* C13 -- Table Store matches the reference map: after any sequence of
\* write, delete and clear_table calls, read(table, key) returns the value
\* of the most recent write to that key that was not deleted or cleared
\* afterwards, and absent when there is none.
StoreMatchesReference ==
    \A table \in StoreTables : \A key \in StoreKeys :
        LET ref == MostRecentWrite(store_calls, Len(store_calls), table, key)
        IN  IF ref = {}
            THEN /\ ~Present(storage, table, key)
                 /\ read(storage, table, key) = None
            ELSE /\ Present(storage, table, key)
                 /\ {read(storage, table, key)} = ref

\* two keys were written to a table and one of them deleted: the deleted
\* key reads absent, the other still reads its value
StoreMatchesReferenceWitness ==
    /\ Len(store_calls) = 3
    /\ store_calls[1].op = "write" /\ store_calls[1].key = "BTCUSDT"
    /\ store_calls[1].table = "symbols"
    /\ store_calls[3].op = "delete" /\ store_calls[3].key = "BTCUSDT"
    /\ store_calls[3].table = "symbols"
    /\ ~Present(storage, "symbols", "BTCUSDT")
    /\ Present(storage, "symbols", "ETHBTC")


\* some call so far was a write to the table
EverWritten(table) ==
    \E i \in 1..Len(store_calls) :
        store_calls[i].op = "write" /\ store_calls[i].table = table

LastCall == store_calls[Len(store_calls)]
StoreStep(op) ==
    Len(store_calls') = Len(store_calls) + 1 /\ LastCall'.op = op

\* the entries of a table, none when the table does not exist
Entries(store, table) == GetOr(store, table, EmptyDict)

\* C15 -- Idempotent write / overwrite: after write(table, key, value) the
\* key holds exactly that value, with nothing of an older value merged in;
\* every other key of the table and every other table is unchanged; and a
\* second write of the same value changes nothing.
IdempotentOverwrite ==
    [][StoreStep("write") =>
          LET c == LastCall'
          IN  /\ DOMAIN storage' = DOMAIN storage \cup {c.table}
              /\ DOMAIN storage'[c.table] =
                     DOMAIN Entries(storage, c.table) \cup {c.key}
              /\ storage'[c.table][c.key] = c.value
              /\ \A k \in DOMAIN Entries(storage, c.table) \ {c.key} :
                     storage'[c.table][k] = storage[c.table][k]
              /\ \A t \in DOMAIN storage \ {c.table} :
                     storage'[t] = storage[t]
              /\ write(storage', c.table, c.key, c.value) = storage'
              /\ /\ Len(store_calls) >= 1
                 /\ LastCall.op = "write" /\ LastCall.table = c.table
                 /\ LastCall.key = c.key /\ LastCall.value = c.value
                 => storage' = storage]_vars

\* one key was written twice with different values while another key was
\* in the table: it holds the second value, and the other key its own
IdempotentOverwriteWitness ==
    /\ Len(store_calls) = 3
    /\ \A i \in 1..3 : store_calls[i].op = "write"
                       /\ store_calls[i].table = "ticker"
    /\ store_calls[1].key = "ETHBTC"
    /\ store_calls[2].key = "BTCUSDT" /\ store_calls[3].key = "BTCUSDT"
    /\ store_calls[2].value # store_calls[3].value
    /\ read(storage, "ticker", "BTCUSDT") = store_calls[3].value
    /\ read(storage, "ticker", "ETHBTC") = store_calls[1].value


\* C16 -- Absent-target no-ops: delete(table, key) on a missing table or a
\* missing key, and clear_table(table) on a missing table, leave the whole
\* store unchanged and do not create the table; delete of a present key
\* removes that key and nothing else.
AbsentTargetNoOp ==
    [][LET c == LastCall'
       IN  /\ StoreStep("delete") =>
                  IF Present(storage, c.table, c.key)
                  THEN /\ DOMAIN storage' = DOMAIN storage
                       /\ DOMAIN storage'[c.table] =
                              DOMAIN storage[c.table] \ {c.key}
                       /\ \A k \in DOMAIN storage'[c.table] :
                              storage'[c.table][k] = storage[c.table][k]
                       /\ \A t \in DOMAIN storage \ {c.table} :
                              storage'[t] = storage[t]
                  ELSE storage' = storage
           /\ StoreStep("clear_table") /\ c.table \notin DOMAIN storage =>
                  storage' = storage]_vars

\* a delete of a key that was never written and a clear_table of a table
\* that was never written followed a write: the store is what the write left
AbsentTargetNoOpWitness ==
    /\ Len(store_calls) = 3
    /\ store_calls[1].op = "write" /\ store_calls[1].table = "symbols"
    /\ store_calls[1].key = "BTCUSDT"
    /\ store_calls[2].op = "delete" /\ store_calls[2].table = "symbols"
    /\ store_calls[2].key = "ETHBTC"
    /\ store_calls[3].op = "clear_table" /\ store_calls[3].table = "ticker"
    /\ DOMAIN storage = {"symbols"}
    /\ DOMAIN storage["symbols"] = {"BTCUSDT"}


\* the positions of an instrument's filters of one type, and the value a
\* record field must have: that of the filter, null when there is none
FiltersOfType(instrument, type) ==
    LET filters == GetOr(instrument, "filters", <<>>)
    IN  {j \in 1..Len(filters) : Get(filters[j], "filterType") = type}

FilterField(instrument, type, field) ==
    IF FiltersOfType(instrument, type) = {} THEN None
    ELSE Get(instrument["filters"][CHOOSE j \in FiltersOfType(instrument, type) : TRUE],
             field)

\* C17 -- exchange_info parsing: once the Table-Store Sink has handled an
\* exchange_info message, every instrument of it has one 'symbols' record
\* under its identifier; tickSize, minPrice and maxPrice are those of its
\* PRICE_FILTER filter and lotSize.minQty, maxQty and stepSize those of its
\* LOT_SIZE filter, null when the instrument has no filter of that type;
\* identifier, base asset, quote asset and status are copied verbatim.
ExchangeInfoParsing ==
    /\ last.op = "fan_out_publish" /\ last.topic = "exchange_info"
    /\ last.raised # "OSError"
    => LET symbols == GetOr(last.message, "symbols", <<>>)
       IN  \A i \in 1..Len(symbols) :
               LET inst == symbols[i]
                   id == Get(inst, "symbol")
               IN  /\ Present(storage, "symbols", id)
                   /\ LET rec == storage["symbols"][id]
                      IN  /\ rec.symbol = id
                          /\ rec.baseAsset = Get(inst, "baseAsset")
                          /\ rec.quoteAsset = Get(inst, "quoteAsset")
                          /\ rec.status = Get(inst, "status")
                          /\ rec.tickSize =
                                 FilterField(inst, "PRICE_FILTER", "tickSize")
                          /\ rec.minPrice =
                                 FilterField(inst, "PRICE_FILTER", "minPrice")
                          /\ rec.maxPrice =
                                 FilterField(inst, "PRICE_FILTER", "maxPrice")
                          /\ rec.lotSize.minQty =
                                 FilterField(inst, "LOT_SIZE", "minQty")
                          /\ rec.lotSize.maxQty =
                                 FilterField(inst, "LOT_SIZE", "maxQty")
                          /\ rec.lotSize.stepSize =
                                 FilterField(inst, "LOT_SIZE", "stepSize")
                          /\ DOMAIN rec = {"symbol", "baseAsset", "quoteAsset",
                                           "tickSize", "minPrice", "maxPrice",
                                           "lotSize", "status"}

\* a message whose first instrument has a PRICE_FILTER but no LOT_SIZE and
\* whose second has no filters at all was handled: the first record has its
\* prices and null lot sizes, the second only nulls
ExchangeInfoParsingWitness ==
    /\ last.op = "fan_out_publish" /\ last.topic = "exchange_info"
    /\ last.raised = "none"
    /\ Present(storage, "symbols", "BTCUSDT")
    /\ Present(storage, "symbols", "ETHBTC")
    /\ storage["symbols"]["BTCUSDT"].minPrice = "0.01"
    /\ storage["symbols"]["BTCUSDT"].lotSize.minQty = None
    /\ storage["symbols"]["BTCUSDT"].status = "BREAK"
    /\ storage["symbols"]["ETHBTC"].maxPrice = None


\* C18 -- Pending counter is exact: the pending counter of an open topic is
\* the number of records appended to its handle and not yet flushed.  It
\* goes up by one with every appended record and is otherwise left alone,
\* except that every flush -- triggered by the threshold, explicit or
\* periodic -- sets it to 0 together with making every appended record
\* flushed.
PendingCounterExact ==
    [][\A t \in Topics :
          LET appended == Len(written'[t]) - Len(written[t])
              threshold == /\ PublishStep(t) /\ appended = 1
                           /\ limit_reached(CountOf(t) + 1, flush_limit)
              reset == /\ write_counts'[t] = 0
                       /\ flushed'[t] = Len(written'[t])
          IN  t \in DOMAIN write_counts' /\ t \notin closed_handles' =>
                  IF threshold THEN reset
                  ELSE reset \/ write_counts'[t] = CountOf(t) + appended]_vars


\* C19 -- Topic independence: a FilePubSub.publish(topic, message) and a
\* flush(topic), a flush triggered by the threshold included, leave the log
\* contents, the flushed prefix and the pending counter of every other
\* topic unchanged.
TopicIndependence ==
    [][\A t \in Topics :
          PublishStep(t) \/ Flush(t) =>
              \A u \in Topics \ {t} :
                  /\ written'[u] = written[u]
                  /\ flushed'[u] = flushed[u]
                  /\ u \in DOMAIN write_counts' <=> u \in DOMAIN write_counts
                  /\ CountOf(u)' = CountOf(u)]_vars

\* a publish on system_status reached the threshold and flushed that topic
\* while exchange_info kept its record buffered and its counter at 1
TopicIndependenceWitness ==
    /\ last.op = "publish" /\ last.topic = "system_status"
    /\ last.raised = "none"
    /\ CountOf("system_status") = 0
    /\ flushed["system_status"] = 2
    /\ CountOf("exchange_info") = 1
    /\ Len(written["exchange_info"]) = 1
    /\ flushed["exchange_info"] = 0


\* the keys of a table that a message of a topic carries a value for
KeysOfMessage(topic, message, table) ==
    IF topic = "exchange_info" /\ table = "symbols"
    THEN {Get(GetOr(message, "symbols", <<>>)[i], "symbol") :
              i \in 1..Len(GetOr(message, "symbols", <<>>))}
    ELSE IF topic = "exchange_info" /\ table = "exchange_info"
    THEN {"rateLimits"} \cap DOMAIN message
    ELSE IF topic \in {"system_status", "account_info"} /\ table = topic
    THEN DOMAIN message
    ELSE {}

\* C20 -- The Table-Store Sink never removes data: across publish calls
\* every table stays, the key set of every table only grows, and a key the
\* newest message has no value for keeps the value an earlier message gave
\* it.
SinkNeverRemoves ==
    [][\A table \in DOMAIN storage :
          /\ table \in DOMAIN storage'
          /\ DOMAIN storage[table] \subseteq DOMAIN storage'[table]
          /\ \A k \in DOMAIN storage[table] :
                 \/ storage'[table][k] = storage[table][k]
                 \/ /\ publishes' = publishes + 1
                    /\ k \in KeysOfMessage(last'.topic, last'.message, table)]_vars

\* the newest exchange_info message names BTCUSDT only, and ETHBTC, written
\* by the message before it, can still be read
SinkNeverRemovesWitness ==
    /\ last.op = "fan_out_publish" /\ last.topic = "exchange_info"
    /\ last.raised = "none"
    /\ Len(GetOr(last.message, "symbols", <<>>)) = 1
    /\ Present(storage, "symbols", "ETHBTC")
    /\ Present(storage, "symbols", "BTCUSDT")
    /\ storage["symbols"]["BTCUSDT"].status = "TRADING"
    /\ storage["symbols"]["ETHBTC"] = symbol_record(EthBtc)


\* the topics the Table-Store Sink has a branch for
StoredTopics == {"exchange_info", "system_status", "account_info"}

\* C21 as stated -- every InMemoryWithLogPublisher.publish on a topic the
\* Table-Store Sink does not recognise appends one record to the topic's
\* log, leaves the Table Store unchanged and does not raise.
UnrecognisedAlwaysLogged ==
    [][\A t \in Topics \ StoredTopics :
          PublishStep(t) /\ last'.op = "fan_out_publish" =>
              /\ written'[t] = Append(written[t], log_line(Now, last'.message))
              /\ storage' = storage
              /\ last'.raised = "none"]_vars

\* C21 -- Unrecognised topics are logged but not stored: an
\* InMemoryWithLogPublisher.publish on a topic outside exchange_info,
\* system_status and account_info leaves the Table Store completely
\* unchanged and creates no table, whatever happens in the log step.  It
\* raises nothing but an OSError of the log step; when it returns normally
\* exactly one record for the message was appended to the topic's log, and
\* an append that fails adds none.
UnrecognisedLoggedNotStored ==
    [][\A t \in Topics \ StoredTopics :
          PublishStep(t) /\ last'.op = "fan_out_publish" =>
              /\ storage' = storage
              /\ t \notin DOMAIN storage'
              /\ last'.raised \in {"none", "OSError"}
              /\ \/ written'[t] =
                        Append(written[t], log_line(Now, last'.message))
                 \/ written'[t] = written[t] /\ last'.raised = "OSError"]_vars

\* a ticker message was published after a system_status message: it is in
\* the ticker log, the call returned, and the Table Store holds the
\* system_status table only
UnrecognisedLoggedNotStoredWitness ==
    /\ last.op = "fan_out_publish" /\ last.topic = "ticker"
    /\ last.raised = "none"
    /\ Len(written["ticker"]) = 1
    /\ json_loads(LastLine(written["ticker"]).payload) = last.message
    /\ DOMAIN storage = {"system_status"}

====
